---- MODULE Spec2Model ----
(***************************************************************************)
(* IemocapDataset (src/IemocapDataset.py): the annotation parser and index *)
(* builder of __init__, the accessors __len__ and __getitem__, and the     *)
(* framer collate_fn.                                                      *)
(*                                                                         *)
(* A Python str is a sequence of one-character strings.  A waveform is a   *)
(* sequence of channels, each a sequence of integer samples                *)
(* (shape channels x samples).  The pandas / numpy / torch calls are       *)
(* modelled with the behaviour of the library versions the file runs on    *)
(* (np.int exists, DataFrame(dtype=...) leaves non-numeric columns as      *)
(* objects).                                                               *)
(***************************************************************************)
EXTENDS Integers, Sequences, FiniteSets, TLC

VARIABLES
    fs,      \* root/Session<i>/dialog/EmoEvaluation: session -> listing of files
    audio,   \* the audio files on disk: absolute path -> waveform
    pc,      \* "init" (no dataset yet), "built" (__init__ returned), "failed" (__init__ raised)
    df,      \* self.df: the sequence of rows, in index order 0, 1, ...
    input,   \* the argument of a call made without a dataset (a batch, the lines of a file)
    ret,     \* the last call: its name, its argument and what it returned or raised
    trace    \* the locals of the last collate_fn call, one record per item it started

vars == <<fs, audio, pc, df, input, ret, trace>>

(***************************************************************************)
(* Bounds of the model.                                                    *)
(***************************************************************************)
MaxLen == 730        \* longest waveform framed on its own
NumSeeds == 2        \* sample patterns per waveform length
MaxBatch == 2        \* longest batch
MaxDirs == 2         \* sessions whose EmoEvaluation directory is not empty
MaxFileLines == 2    \* lines of an evaluation file given to the parser on its own

(***************************************************************************)
(* Python str operations                                                   *)
(***************************************************************************)
startswith(s, p) == Len(s) >= Len(p) /\ SubSeq(s, 1, Len(p)) = p

endswith(s, p) == Len(s) >= Len(p) /\ SubSeq(s, Len(s) - Len(p) + 1, Len(s)) = p

Whitespace == {" ", "\t", "\n", "\r"}

RECURSIVE lstrip(_)
lstrip(s) == IF s # <<>> /\ Head(s) \in Whitespace THEN lstrip(Tail(s)) ELSE s

RECURSIVE rstrip(_)
rstrip(s) ==
    IF s # <<>> /\ s[Len(s)] \in Whitespace THEN rstrip(SubSeq(s, 1, Len(s) - 1)) ELSE s

strip(s) == rstrip(lstrip(s))

\* str.replace(old, new): every non-overlapping occurrence, left to right
RECURSIVE replace(_, _, _)
replace(s, old, new) ==
    IF Len(s) < Len(old) THEN s
    ELSE IF startswith(s, old)
         THEN new \o replace(SubSeq(s, Len(old) + 1, Len(s)), old, new)
         ELSE <<Head(s)>> \o replace(Tail(s), old, new)

\* str.split(sep) for a one-character sep: empty fields are kept
RECURSIVE split(_, _)
split(s, sep) ==
    IF \E i \in 1..Len(s) : s[i] = sep
    THEN LET i == CHOOSE j \in 1..Len(s) : s[j] = sep /\ \A k \in 1..(j - 1) : s[k] # sep
         IN  <<SubSeq(s, 1, i - 1)>> \o split(SubSeq(s, i + 1, Len(s)), sep)
    ELSE <<s>>

\* os.path.join (posixpath): an absolute component discards what precedes it
RECURSIVE path_join(_)
path_join(parts) ==
    IF Len(parts) = 1 THEN parts[1]
    ELSE LET a == path_join(SubSeq(parts, 1, Len(parts) - 1))
             b == parts[Len(parts)]
         IN  IF startswith(b, <<"/">>) THEN b
             ELSE IF a = <<>> \/ endswith(a, <<"/">>) THEN a \o b
             ELSE a \o <<"/">> \o b

(***************************************************************************)
(* Class attributes and the default root                                   *)
(***************************************************************************)
_ext_audio == <<".","w","a","v">>

_emotions ==
    { <<<<"a","n","g">>, 1>>, <<<<"h","a","p">>, 2>>, <<<<"e","x","c">>, 3>>, <<<<"s","a","d">>, 4>>, <<<<"f","r","u">>, 5>>,
      <<<<"f","e","a">>, 6>>, <<<<"s","u","r">>, 7>>, <<<<"n","e","u">>, 8>>, <<<<"x","x","x">>, 9>> }

root == <<"I","E","M","O","C","A","P","_","f","u","l","l","_","r","e","l","e","a","s","e">>

Sessions == 1..5

columns == <<"start", "end", "file", "emotion", "activation", "valence", "dominance">>

\* the cell pandas puts where a row has no value, and the float it maps a
\* value outside the dictionary to
None == <<"None">>
NaN == -1

(***************************************************************************)
(* Annotation parser: lines 31-45                                          *)
(***************************************************************************)
\* variant: the ", " between the three affect values is not replaced
Variant_ParseLine(line) ==
    split(replace(replace(replace(strip(line), <<"[">>, <<>>), <<"]">>, <<>>),
                  <<" ","-"," ">>, <<"\t">>),
          "\t")

ParseLine(line) ==
    split(replace(replace(replace(replace(strip(line), <<"[">>, <<>>), <<"]">>, <<>>),
                          <<" ","-"," ">>, <<"\t">>),
                  <<","," ">>, <<"\t">>),
          "\t")

\* the list comprehension over the lines of one open file
ParseFile(lines) ==
    LET kept == SelectSeq(lines, LAMBDA l : startswith(l, <<"[">>))
    IN  [k \in 1..Len(kept) |-> ParseLine(kept[k])]

\* files = [file for file in os.listdir(path) if file.endswith('.txt')]
TxtFiles(listing) == SelectSeq(listing, LAMBDA f : endswith(f.name, <<".","t","x","t">>))

RECURSIVE ParseFiles(_)
ParseFiles(files) ==
    IF files = <<>> THEN <<>>
    ELSE ParseFiles(SubSeq(files, 1, Len(files) - 1)) \o ParseFile(files[Len(files)].lines)

\* data after the sessions 1..n have been read
RECURSIVE ReadSessions(_, _)
ReadSessions(tree, n) ==
    IF n = 0 THEN <<>>
    ELSE ReadSessions(tree, n - 1) \o ParseFiles(TxtFiles(tree[n]))

\* variant: range(1, 5), the last session is not read
Variant_ReadData(tree) == ReadSessions(tree, 4)

ReadData(tree) == ReadSessions(tree, 5)

(***************************************************************************)
(* Index builder: lines 47-54                                              *)
(***************************************************************************)
RECURSIVE MaxWidth(_)
MaxWidth(data) ==
    IF data = <<>> THEN 0
    ELSE LET m == MaxWidth(Tail(data))
         IN  IF Len(Head(data)) > m THEN Len(Head(data)) ELSE m

Row(cells) ==
    [start |-> cells[1], end |-> cells[2], file |-> cells[3], emotion |-> cells[4],
     activation |-> cells[5], valence |-> cells[6], dominance |-> cells[7]]

\* pd.DataFrame(data, columns=[7 names]): the widest row decides the number of
\* columns of the data, a shorter row is completed with None, and a number of
\* columns other than 7 raises ValueError; no rows give an empty frame.
DataFrame(data) ==
    IF data = <<>> THEN [err |-> "none", rows |-> <<>>]
    ELSE IF MaxWidth(data) # Len(columns) THEN [err |-> "ValueError", rows |-> <<>>]
    ELSE [err |-> "none",
          rows |-> [k \in 1..Len(data) |->
                      Row([c \in 1..Len(columns) |->
                             IF c <= Len(data[k]) THEN data[k][c] ELSE None])]]

\* Series.map(self._emotions).astype(np.float32): a value that is no key of the
\* dictionary maps to NaN
MapEmotion(e) ==
    IF \E p \in _emotions : p[1] = e
    THEN (CHOOSE p \in _emotions : p[1] = e)[2]
    ELSE NaN

\* what line 54 raises for one cell of the file column
FilePathErr(file) ==
    IF file = None THEN "TypeError"
    ELSE IF Len(file) < 5 THEN "IndexError"
    ELSE "none"

\* variant: file[:-4], the group keeps one more character of the file_id
Variant_FilePath(file) ==
    path_join(<< <<"S","e","s","s","i","o","n">> \o <<file[5]>>, <<"s","e","n","t","e","n","c","e","s">>, <<"w","a","v">>,
                 SubSeq(file, 1, Len(file) - 4), file \o _ext_audio >>)

\* os.path.join('Session' + file[4], 'sentences', 'wav', file[:-5], file + self._ext_audio)
FilePath(file) ==
    path_join(<< <<"S","e","s","s","i","o","n">> \o <<file[5]>>, <<"s","e","n","t","e","n","c","e","s">>, <<"w","a","v">>,
                 SubSeq(file, 1, Len(file) - 5), file \o _ext_audio >>)

\* lines 50-54 on the frame of line 48: the emotion codes and the audio paths
BuildIndex(frame) ==
    LET rows == frame.rows
        bad  == {k \in 1..Len(rows) : FilePathErr(rows[k].file) # "none"}
    IN  IF frame.err # "none" THEN [err |-> frame.err, df |-> <<>>]
        ELSE IF bad # {}
        THEN [err |-> FilePathErr(rows[CHOOSE k \in bad : \A j \in bad : k <= j].file),
              df |-> <<>>]
        ELSE [err |-> "none",
              df |-> [k \in 1..Len(rows) |->
                        [rows[k] EXCEPT !.emotion = MapEmotion(rows[k].emotion),
                                        !.file = FilePath(rows[k].file)]]]

\* variant: the constructor opens every audio file and fails where one is absent
Variant___init__(tree) ==
    LET r == BuildIndex(DataFrame(ReadData(tree)))
    IN  IF \E k \in DOMAIN r.df : path_join(<<root, r.df[k].file>>) \notin DOMAIN audio
        THEN [err |-> "LoadError", df |-> <<>>]
        ELSE r

\* __init__(self, root): the frame it leaves in self.df, or the exception it raises
__init__(tree) == BuildIndex(DataFrame(ReadData(tree)))

(***************************************************************************)
(* Dataset accessors: lines 56-80                                          *)
(***************************************************************************)
__len__(self_df) == Len(self_df)

\* self.df.loc[idx, ...] raises KeyError for a label that is no row label 0..n-1;
\* torchaudio.load raises for a path that is no file
__getitem__(self_df, disk, idx) ==
    IF idx \notin 0..(Len(self_df) - 1) THEN [err |-> "KeyError", val |-> <<>>]
    ELSE LET row == self_df[idx + 1]
             audio_name == path_join(<<root, row.file>>)
         IN  IF audio_name \notin DOMAIN disk THEN [err |-> "LoadError", val |-> <<>>]
             ELSE [err |-> "none",
                   val |-> [path |-> audio_name,
                            waveform |-> disk[audio_name].waveform,
                            sample_rate |-> disk[audio_name].sample_rate,
                            emotion |-> row.emotion,
                            activation |-> row.activation,
                            valence |-> row.valence,
                            dominance |-> row.dominance]]

(***************************************************************************)
(* Framer: lines 82-106                                                    *)
(***************************************************************************)
sample_rate == 16000
n_channels == 1
frame_length == (25 * sample_rate) \div 1000   \* np.int(0.025 * sample_rate)
step_length == (10 * sample_rate) \div 1000    \* np.int(0.01 * sample_rate)

\* np.ceil(a / b) for integers a and b > 0
ceil_div(a, b) == -((-a) \div b)

\* variant: np.floor in place of np.ceil
Variant_n_frames_of(original_waveform_length) ==
    ((original_waveform_length - frame_length) \div step_length) + 1

n_frames_of(original_waveform_length) ==
    ceil_div(original_waveform_length - frame_length, step_length) + 1

padding_length_of(original_waveform_length, n_frames) ==
    IF original_waveform_length < frame_length
    THEN frame_length
    ELSE frame_length + (n_frames - 1) * step_length - original_waveform_length

zeros(n) == [k \in 1..n |-> 0]

\* F.pad(waveform, (0, padding_length)): zeros on the right of the last dimension
pad(waveform, padding_length) ==
    [c \in 1..Len(waveform) |-> waveform[c] \o zeros(padding_length)]

\* item_frames[i] = padded_waveform[:, i*step_length : i*step_length+frame_length]
\* for i in range(n_frames); frame i of the code is element i + 1
item_frames_of(padded_waveform, n_frames) ==
    [f \in 1..n_frames |->
       [c \in 1..Len(padded_waveform) |->
          SubSeq(padded_waveform[c], (f - 1) * step_length + 1,
                                     (f - 1) * step_length + frame_length)]]

\* variant: torch.cat((item_frames, frames), 0)
Variant_cat(frames, item_frames) == item_frames \o frames

\* torch.cat((frames, item_frames), 0)
cat(frames, item_frames) == frames \o item_frames

\* the loop of collate_fn after the first n items of the batch: the frames so far
\* and the locals of every item started; torch.zeros raises RuntimeError for a
\* negative n_frames
RECURSIVE collate_loop(_, _)
collate_loop(batch, n) ==
    IF n = 0 THEN [err |-> "none", frames |-> <<>>, trace |-> <<>>]
    ELSE LET prev == collate_loop(batch, n - 1)
             waveform == batch[n].waveform
             original_waveform_length == Len(waveform[1])
             n_frames == n_frames_of(original_waveform_length)
             padding_length == padding_length_of(original_waveform_length, n_frames)
             padded_waveform == pad(waveform, padding_length)
             locals == [original_waveform_length |-> original_waveform_length,
                        n_frames |-> n_frames,
                        padding_length |-> padding_length,
                        padded_length |-> Len(padded_waveform[1])]
         IN  IF prev.err # "none" THEN prev
             ELSE IF n_frames < 0
             THEN [err |-> "RuntimeError", frames |-> <<>>,
                   trace |-> Append(prev.trace, locals)]
             ELSE [err |-> "none",
                   frames |-> cat(prev.frames, item_frames_of(padded_waveform, n_frames)),
                   trace |-> Append(prev.trace, locals)]

collate_fn(batch) == collate_loop(batch, Len(batch))

(***************************************************************************)
(* Inputs: waveforms and batches given to collate_fn                       *)
(***************************************************************************)
Sample(p, seed) == ((p * seed + seed) % 5) - 2

Wave(L, seed) == << [p \in 1..L |-> Sample(p, seed)] >>

Seeds == 1..NumSeeds

AllWaves == {Wave(L, seed) : L \in 0..MaxLen, seed \in Seeds}

\* the lengths around which n_frames changes
EdgeLengths == {0, 80, 81, 240, 241, 399, 400, 401, 560, 561, 720}

EdgeWaves == {Wave(L, seed) : L \in EdgeLengths, seed \in Seeds}

Item(w) == [waveform |-> w]

RECURSIVE SeqsOf(_, _)
SeqsOf(S, n) ==
    IF n = 0 THEN {<<>>}
    ELSE LET shorter == SeqsOf(S, n - 1)
         IN  shorter \cup {Append(q, x) : q \in {r \in shorter : Len(r) = n - 1}, x \in S}

\* every batch of at most one waveform, and the longer batches of edge waveforms
Batches ==
    {<<>>} \cup {<<Item(w)>> : w \in AllWaves}
           \cup {[k \in 1..Len(q) |-> Item(q[k])] : q \in SeqsOf(EdgeWaves, MaxBatch)}

(***************************************************************************)
(* Inputs: evaluation files and audio files of a corpus                    *)
(***************************************************************************)
Header   == <<"%"," ","[","S","T","A","R","T","_","T","I","M","E"," ","-"," ","E","N","D","_","T","I","M","E","]"," ","T","U","R","N","_","N","A","M","E"," ","E","M","O","T","I","O","N"," ","[","V",","," ","A",","," ","D","]","\n">>
Blank    == <<"\n">>
Rater    == <<"C","-","E","2",":","\t","N","e","u","t","r","a","l",";","\t","(",")","\n">>
Good1    == <<"[","6",".","2","9","0","1"," ","-"," ","8",".","2","3","5","7","]","\t","S","e","s","0","1","F","_","i","m","p","r","o","0","1","_","F","0","0","0","\t","n","e","u","\t","[","2",".","5","0","0","0",","," ","2",".","5","0","0","0",","," ","2",".","5","0","0","0","]","\n">>
Good2    == <<"[","1","0",".","0","1"," ","-"," ","1","1",".","3","9","]","\t","S","e","s","0","5","M","_","i","m","p","r","o","0","2","_","M","0","0","3","\t","a","n","g","\t","[","4",".","0",","," ","1",".","5",","," ","4",".","5","]","\n">>
Good3    == <<"[","0",".","5"," ","-"," ","1",".","5","]","\t","S","e","s","0","3","F","_","i","m","p","r","o","0","1","_","M","0","0","1","\t","x","x","x","\t","[","2",".","0",","," ","3",".","0",","," ","3",".","5","]","\n">>
Disgust  == <<"[","1",".","0"," ","-"," ","2",".","0","]","\t","S","e","s","0","2","F","_","i","m","p","r","o","0","3","_","F","0","0","2","\t","d","i","s","\t","[","1",".","5",","," ","4",".","0",","," ","3",".","0","]","\n">>
Short    == <<"[","3",".","0"," ","-"," ","4",".","0","]","\t","S","e","s","0","4","M","_","i","m","p","r","o","0","1","_","M","0","0","0","\t","s","a","d","\t","[","2",".","0",","," ","2",".","0","]","\n">>
Long     == <<"[","3",".","0"," ","-"," ","4",".","0","]","\t","S","e","s","0","4","M","_","i","m","p","r","o","0","1","_","M","0","0","0","\t","s","a","d","\t","[","2",".","0",","," ","2",".","0",","," ","3",".","0",","," ","1",".","0","]","\n">>

File(name, lines) == [name |-> name, lines |-> lines]

\* the listings a session's EmoEvaluation directory may hold, in os.listdir order
DirPool ==
    { << File(<<"a",".","t","x","t">>, <<Header, Blank, Good1, Rater, Blank, Good2>>) >>,
      << File(<<"a",".","t","x","t">>, <<Good3, Disgust>>), File(<<"b",".","l","o","g">>, <<Good1>>),
         File(<<"c",".","t","x","t">>, <<Header, Short>>) >>,
      << File(<<"a",".","t","x","t">>, <<Long>>) >> }

Corpora ==
    {t \in [Sessions -> DirPool \cup {<<>>}] :
        Cardinality({s \in Sessions : t[s] # <<>>}) <= MaxDirs}

NoCorpus == [s \in Sessions |-> <<>>]

Clip(path, L) == [path |-> path, waveform |-> Wave(L, 1), sample_rate |-> sample_rate]

\* the audio files of the corpus, where the corpus keeps them
AudioPool ==
    { Clip(<<"I","E","M","O","C","A","P","_","f","u","l","l","_","r","e","l","e","a","s","e","/","S","e","s","s","i","o","n","1","/","s","e","n","t","e","n","c","e","s","/","w","a","v","/","S","e","s","0","1","F","_","i","m","p","r","o","0","1","/","S","e","s","0","1","F","_","i","m","p","r","o","0","1","_","F","0","0","0",".","w","a","v">>, 560),
      Clip(<<"I","E","M","O","C","A","P","_","f","u","l","l","_","r","e","l","e","a","s","e","/","S","e","s","s","i","o","n","5","/","s","e","n","t","e","n","c","e","s","/","w","a","v","/","S","e","s","0","5","M","_","i","m","p","r","o","0","2","/","S","e","s","0","5","M","_","i","m","p","r","o","0","2","_","M","0","0","3",".","w","a","v">>, 300),
      Clip(<<"I","E","M","O","C","A","P","_","f","u","l","l","_","r","e","l","e","a","s","e","/","S","e","s","s","i","o","n","3","/","s","e","n","t","e","n","c","e","s","/","w","a","v","/","S","e","s","0","3","F","_","i","m","p","r","o","0","1","/","S","e","s","0","3","F","_","i","m","p","r","o","0","1","_","M","0","0","1",".","w","a","v">>, 400),
      Clip(<<"I","E","M","O","C","A","P","_","f","u","l","l","_","r","e","l","e","a","s","e","/","S","e","s","s","i","o","n","4","/","s","e","n","t","e","n","c","e","s","/","w","a","v","/","S","e","s","0","4","M","_","i","m","p","r","o","0","1","/","S","e","s","0","4","M","_","i","m","p","r","o","0","1","_","M","0","0","0",".","w","a","v">>, 0) }

Disk(clips) ==
    [p \in {c.path : c \in clips} |->
        LET c == CHOOSE x \in clips : x.path = p
        IN  [waveform |-> c.waveform, sample_rate |-> c.sample_rate]]

\* every audio file is on disk, or every one but that of Ses05M_impro02_M003
Disks == {Disk(AudioPool), Disk({c \in AudioPool : Len(c.waveform[1]) # 300})}

NoDisk == Disk({})

(***************************************************************************)
(* Inputs: well-formed annotation lines given to the parser                *)
(***************************************************************************)
FieldPool ==
    << {<<"6",".","2","9","0","1">>, <<"-","1",".","5">>}, {<<"8",".","2","3","5","7">>},
       {<<"S","e","s","0","1","F","_","i","m","p","r","o","0","1","_","F","0","0","0">>, <<"S","e","s","0","5","M","_","s","c","r","i","p","t","0","1","_","1","_","M","0","0","3">>},
       {<<"n","e","u">>, <<"d","i","s">>}, {<<"2",".","5","0","0","0">>}, {<<"3">>}, {<<"3",".","5","0","0","0">>, <<"4",".","5">>} >>

FieldTuples == {t \in [1..7 -> UNION {FieldPool[c] : c \in 1..7}] :
                   \A c \in 1..7 : t[c] \in FieldPool[c]}

\* [<start> - <end>]\t<file_id>\t[<emotion>]\t[<activation>, <valence>, <dominance>]
FormatLine(t) ==
    <<"[">> \o t[1] \o <<" ","-"," ">> \o t[2] \o <<"]","\t">> \o t[3] \o <<"\t","[">> \o t[4] \o <<"]","\t","[">>
          \o t[5] \o <<","," ">> \o t[6] \o <<","," ">> \o t[7] \o <<"]","\n">>

FileInputs ==
    {[fields |-> q, lines |-> [k \in 1..Len(q) |-> FormatLine(q[k])]] :
        q \in SeqsOf(FieldTuples, MaxFileLines)}

(***************************************************************************)
(* State machine                                                           *)
(***************************************************************************)
NoCall == [op |-> "none", arg |-> <<>>, err |-> "none", val |-> <<>>]

\* a corpus on disk and no dataset yet
Init ==
    /\ fs \in Corpora
    /\ audio \in Disks
    /\ pc = "init"
    /\ df = <<>>
    /\ input = <<>>
    /\ ret = NoCall
    /\ trace = <<>>

\* IemocapDataset(root)
Construct ==
    /\ pc = "init"
    /\ LET r == __init__(fs)
       IN  /\ pc' = IF r.err = "none" THEN "built" ELSE "failed"
           /\ df' = r.df
           /\ ret' = [op |-> "__init__", arg |-> root, err |-> r.err, val |-> <<>>]
    /\ UNCHANGED <<fs, audio, input, trace>>

\* len(dataset)
LenCall ==
    /\ pc = "built"
    /\ ret' = [op |-> "__len__", arg |-> <<>>, err |-> "none", val |-> __len__(df)]
    /\ UNCHANGED <<fs, audio, pc, df, input, trace>>

\* dataset[idx]
GetItem ==
    /\ pc = "built"
    /\ \E idx \in -1..Len(df) :
          LET r == __getitem__(df, audio, idx)
          IN  ret' = [op |-> "__getitem__", arg |-> idx, err |-> r.err, val |-> r.val]
    /\ UNCHANGED <<fs, audio, pc, df, input, trace>>

Collate(batch) ==
    LET r == collate_fn(batch)
    IN  /\ ret' = [op |-> "collate_fn", arg |-> batch, err |-> r.err, val |-> r.frames]
        /\ trace' = r.trace
        /\ UNCHANGED <<fs, audio, pc, df, input>>

\* collate_fn on batch number j of the dataset cut into batches of count samples:
\* dataset[j * count], ..., dataset[j * count + count - 1]
CollateLoaded ==
    /\ pc = "built"
    /\ \E count \in 1..MaxBatch :
          \E j \in 0..(Len(df) \div count) :
             /\ \A k \in 0..(count - 1) : __getitem__(df, audio, j * count + k).err = "none"
             /\ Collate([k \in 1..count |-> __getitem__(df, audio, j * count + k - 1).val])

Next == Construct \/ LenCall \/ GetItem \/ CollateLoaded

Spec == Init /\ [][Next]_vars

\* no corpus and no dataset: a batch to give to collate_fn
InitFramer ==
    /\ fs = NoCorpus
    /\ audio = NoDisk
    /\ pc = "init"
    /\ df = <<>>
    /\ input \in Batches
    /\ ret = NoCall
    /\ trace = <<>>

\* IemocapDataset.collate_fn(batch)
CollateStatic == Collate(input)

NextFramer == CollateStatic

SpecFramer == InitFramer /\ [][NextFramer]_vars

\* no corpus and no dataset: the lines of one evaluation file of well-formed lines
InitParser ==
    /\ fs = NoCorpus
    /\ audio = NoDisk
    /\ pc = "init"
    /\ df = <<>>
    /\ input \in FileInputs
    /\ ret = NoCall
    /\ trace = <<>>

\* the list comprehension of lines 39-45 on the lines of that file
ParseCall ==
    /\ ret' = [op |-> "ParseFile", arg |-> input.lines, err |-> "none",
               val |-> ParseFile(input.lines)]
    /\ UNCHANGED <<fs, audio, pc, df, input, trace>>

NextParser == ParseCall

SpecParser == InitParser /\ [][NextParser]_vars

(***************************************************************************)
(* Properties of the framer (SpecFramer)                                   *)
(***************************************************************************)
\* the call just made is collate_fn on a batch of exactly one waveform
FramedOne == ret.op = "collate_fn" /\ Len(ret.arg) = 1

\* the length of the waveform of item k of the batch just framed
LengthOf(k) == Len(ret.arg[k].waveform[1])

\* sample number p (from 1) of a waveform extended on the right with zeros
Extended(w, p) == IF p <= Len(w[1]) THEN w[1][p] ELSE 0

\* C1: a waveform shorter than frame_length (0 <= L < 400) is framed without
\* failure into exactly one frame, its L samples followed by zeros.
C1_ShortWaveformOneFrame ==
    (FramedOne /\ LengthOf(1) < 400) =>
        /\ ret.err = "none"
        /\ Len(ret.val) = 1
        /\ ret.val[1] = << [p \in 1..400 |-> Extended(ret.arg[1].waveform, p)] >>

\* C2: a waveform of length L >= 400 gives exactly n = ceil((L - 400) / 160) + 1
\* frames, that is the n with 160 * (n - 2) < L - 400 <= 160 * (n - 1); frame i
\* holds the 400 samples at positions [160 * i, 160 * i + 400) of the waveform
\* extended with zeros; L = 400 gives one frame and padding_length 0.
C2_FramesOfLongWaveform ==
    /\ ret.op = "collate_fn" =>
          \A k \in DOMAIN trace :
             LengthOf(k) >= 400 =>
                /\ 160 * (trace[k].n_frames - 2) < LengthOf(k) - 400
                /\ LengthOf(k) - 400 <= 160 * (trace[k].n_frames - 1)
                /\ (LengthOf(k) = 400 => trace[k].n_frames = 1 /\ trace[k].padding_length = 0)
    /\ (FramedOne /\ LengthOf(1) >= 400) =>
          /\ ret.err = "none"
          /\ Len(ret.val) = trace[1].n_frames
          /\ \A i \in 0..(Len(ret.val) - 1) :
                ret.val[i + 1] =
                    << [p \in 1..400 |-> Extended(ret.arg[1].waveform, 160 * i + p)] >>

C2_Witness ==
    /\ FramedOne
    /\ LengthOf(1) = 561
    /\ ret.err = "none"
    /\ Len(ret.val) = 3
    /\ ret.val[3][1][241] # 0
    /\ ret.val[3][1][242] = 0

\* C3: for every waveform length the padding is exact: padding_length >= 0 and
\* the padded length L + padding_length is frame_length + (n_frames - 1) * step_length.
C3_PaddingExact ==
    ret.op = "collate_fn" =>
        \A k \in DOMAIN trace :
            /\ trace[k].padding_length >= 0
            /\ trace[k].padded_length = LengthOf(k) + trace[k].padding_length
            /\ trace[k].padded_length = 400 + (trace[k].n_frames - 1) * 160

\* the frames collate_fn gives for one sample on its own
OwnFrames(item) == collate_fn(<<item>>)

RECURSIVE Flatten(_)
Flatten(seqs) == IF seqs = <<>> THEN <<>> ELSE Head(seqs) \o Flatten(Tail(seqs))

RECURSIVE SumOf(_)
SumOf(ns) == IF ns = <<>> THEN 0 ELSE Head(ns) + SumOf(Tail(ns))

\* C4: the output for a batch is the frames of its first sample, then those of
\* its second, and so on, with nothing between them; their number is the sum of
\* the samples' n_frames; the call fails only where framing one of its samples
\* on its own fails.
C4_BatchIsConcatenation ==
    ret.op = "collate_fn" =>
        /\ ret.err = "none" <=> \A k \in DOMAIN ret.arg : OwnFrames(ret.arg[k]).err = "none"
        /\ ret.err = "none" =>
              /\ ret.val = Flatten([k \in DOMAIN ret.arg |-> OwnFrames(ret.arg[k]).frames])
              /\ Len(trace) = Len(ret.arg)
              /\ Len(ret.val) = SumOf([k \in DOMAIN trace |-> trace[k].n_frames])
              /\ (Len(ret.arg) = 2 /\ LengthOf(1) = 400 /\ LengthOf(2) = 560) => Len(ret.val) = 3

C4_Witness ==
    /\ ret.op = "collate_fn"
    /\ ret.err = "none"
    /\ Len(ret.arg) = 2
    /\ LengthOf(1) = 400
    /\ LengthOf(2) = 560
    /\ ret.arg[1].waveform[1][1] # ret.arg[2].waveform[1][1]
    /\ Len(ret.val) = 3

(***************************************************************************)
(* Properties of the index (Spec)                                          *)
(***************************************************************************)
\* where the lines beginning with '[' of the .txt files are: <<session, file, line>>
Positions ==
    {p \in UNION {UNION {{<<s, f, l>> : l \in DOMAIN fs[s][f].lines} : f \in DOMAIN fs[s]} :
                    s \in Sessions} :
        /\ endswith(fs[p[1]][p[2]].name, <<".","t","x","t">>)
        /\ Head(fs[p[1]][p[2]].lines[p[3]]) = "["}

LineAt(p) == fs[p[1]][p[2]].lines[p[3]]

\* session order, then listing order, then line order
Before(p, q) ==
    \/ p[1] < q[1]
    \/ p[1] = q[1] /\ p[2] < q[2]
    \/ p[1] = q[1] /\ p[2] = q[2] /\ p[3] < q[3]

\* the place in the index of the record read from position p, P being Positions
Rank(P, p) == Cardinality({q \in P : Before(q, p)}) + 1

FieldsAt(p) == ParseLine(LineAt(p))

\* the line names the utterance id between two tabs
HasFileId(line, id) ==
    \E i \in 1..(Len(line) - Len(id) - 1) :
        SubSeq(line, i, i + Len(id) + 1) = <<"\t">> \o id \o <<"\t">>

Codes == 1..9

\* C5 as stated: file_id Ses01F_impro01_F000 gives the path
\* Session1/sentences/wav/Ses01F_impro01_F/Ses01F_impro01_F000.wav
C5_ClaimedPath ==
    pc = "built" =>
        LET P == Positions
        IN  \A p \in P :
               HasFileId(LineAt(p), <<"S","e","s","0","1","F","_","i","m","p","r","o","0","1","_","F","0","0","0">>) =>
                   df[Rank(P, p)].file = <<"S","e","s","s","i","o","n","1","/","s","e","n","t","e","n","c","e","s","/","w","a","v","/","S","e","s","0","1","F","_","i","m","p","r","o","0","1","_","F","/","S","e","s","0","1","F","_","i","m","p","r","o","0","1","_","F","0","0","0",".","w","a","v">>

\* C5 amended: file_id Ses01F_impro01_F000 gives the path
\* Session1/sentences/wav/Ses01F_impro01/Ses01F_impro01_F000.wav (the group is the
\* file_id without its last 5 characters, "_F000").
C5_DerivedPath ==
    pc = "built" =>
        LET P == Positions
        IN  \A p \in P :
               HasFileId(LineAt(p), <<"S","e","s","0","1","F","_","i","m","p","r","o","0","1","_","F","0","0","0">>) =>
                   df[Rank(P, p)].file = <<"S","e","s","s","i","o","n","1","/","s","e","n","t","e","n","c","e","s","/","w","a","v","/","S","e","s","0","1","F","_","i","m","p","r","o","0","1","/","S","e","s","0","1","F","_","i","m","p","r","o","0","1","_","F","0","0","0",".","w","a","v">>

C5_Witness ==
    /\ pc = "built"
    /\ LET P == Positions
       IN  \E p \in P :
              /\ HasFileId(LineAt(p), <<"S","e","s","0","1","F","_","i","m","p","r","o","0","1","_","F","0","0","0">>)
              /\ df[Rank(P, p)].file = <<"S","e","s","s","i","o","n","1","/","s","e","n","t","e","n","c","e","s","/","w","a","v","/","S","e","s","0","1","F","_","i","m","p","r","o","0","1","/","S","e","s","0","1","F","_","i","m","p","r","o","0","1","_","F","0","0","0",".","w","a","v">>

\* C6: every emotion string of the enumeration becomes its code in 1..9 ("ang" 1,
\* "xxx" 9), and a record whose emotion string is outside the enumeration makes
\* construction fail: no index holds a missing or non-enumerated emotion code.
C6_UnknownLabelFails ==
    pc # "init" =>
        LET P == Positions
        IN  /\ (\E p \in P : LET f == FieldsAt(p)
                             IN  Len(f) >= 4 /\ f[4] \notin {e[1] : e \in _emotions})
                  => pc = "failed"
            /\ pc = "built" =>
                  \A p \in P :
                      LET f == FieldsAt(p)
                          code == df[Rank(P, p)].emotion
                      IN  /\ code \in Codes
                          /\ f[4] = <<"a","n","g">> => code = 1
                          /\ f[4] = <<"x","x","x">> => code = 9

\* C7: a line beginning with '[' that does not split into exactly 7 fields makes
\* construction fail: no index is produced.
C7_MalformedLineAborts ==
    (pc # "init" /\ \E p \in Positions : Len(FieldsAt(p)) # 7) => pc = "failed"

\* C8: after construction the size is the number of lines beginning with '[' in
\* the .txt files of sessions 1..5 and the records are in session, listing and
\* line order (record k begins with the start and end times of the k-th such
\* line); this holds in every state get and framing calls lead to.
C8_SizeAndOrder ==
    pc = "built" =>
        LET P == Positions
        IN  /\ Len(df) = Cardinality(P)
            /\ \A p \in P :
                  LET row == df[Rank(P, p)]
                  IN  startswith(LineAt(p), <<"[">> \o row.start \o <<" ","-"," ">> \o row.end \o <<"]">>)
            /\ ret.op = "__len__" => ret.val = Cardinality(P)

C8_Witness ==
    /\ pc = "built"
    /\ ret.op = "__len__"
    /\ ret.val = 5
    /\ fs[5] # <<>>
    /\ \E s \in Sessions : Len(fs[s]) = 3

\* C10: construction does not look at the audio files: it succeeds with valid
\* annotation files whatever audio is on disk; get(index) of a record fails with
\* the loader's error exactly when the record's audio file is absent, and a get
\* that failed has left the index as it was.
C10_LazyPathCheck ==
    /\ [](/\ (pc # "init" /\ \A p \in Positions : Len(FieldsAt(p)) = 7) => pc = "built"
          /\ (ret.op = "__getitem__" /\ ret.arg \in 0..(Len(df) - 1)) =>
                /\ ret.err \in {"none", "LoadError"}
                /\ ret.err = "LoadError" <=>
                      path_join(<<root, df[ret.arg + 1].file>>) \notin DOMAIN audio)
    /\ [][(ret'.op = "__getitem__" /\ ret'.err # "none") =>
             (df' = df /\ pc' = pc /\ audio' = audio)]_vars

C10_Witness ==
    /\ pc = "built"
    /\ \A p \in Positions : Len(FieldsAt(p)) = 7
    /\ ret.op = "__getitem__"
    /\ ret.arg \in 0..(Len(df) - 1)
    /\ ret.err = "LoadError"
    /\ Len(df) >= 2

(***************************************************************************)
(* Properties of the parser (SpecParser)                                   *)
(***************************************************************************)
\* C9: a well-formed line parses into exactly its 7 values, in the order start,
\* end, file_id, emotion, activation, valence, dominance, and two different
\* well-formed lines give two different records.
C9_ParseRoundTrip ==
    ret.op = "ParseFile" =>
        /\ Len(ret.val) = Len(input.fields)
        /\ \A k \in DOMAIN ret.val :
              /\ Len(ret.val[k]) = 7
              /\ \A c \in 1..7 : ret.val[k][c] = input.fields[k][c]
        /\ \A j, k \in DOMAIN ret.val :
              input.lines[j] # input.lines[k] => ret.val[j] # ret.val[k]

C9_Witness ==
    /\ ret.op = "ParseFile"
    /\ Len(ret.val) = 2
    /\ input.lines[1] # input.lines[2]
    /\ ret.val[1][1] = <<"-","1",".","5">>
    /\ ret.val[2][4] = <<"d","i","s">>
    /\ ret.val[2][7] = <<"4",".","5">>

====
